---------------------------- MODULE Spec2Model ----------------------------
(***************************************************************************)
(* A model of the EmotionalManifold engine (src/src/lib/emotionalManifold  *)
(* .ts) and of the calls its users make on one instance.                   *)
(*                                                                         *)
(* Numbers.  The program computes with IEEE doubles.  Here a number is an  *)
(* integer count of 1/Scale units (fixed point, four decimals), and every  *)
(* product, quotient and square root is rounded to the nearest unit, as    *)
(* the double operations round to the nearest double.  Math.tanh, Math.exp *)
(* and Math.atan2 are computed by rational approximations that keep their  *)
(* range, sign, monotonicity and value at 0.                               *)
(***************************************************************************)
EXTENDS Integers, Sequences, FiniteSets, TLC

\* one unit is 1/Scale: the resolution of the model's numbers
Scale == 10000

Abs(a) == IF a < 0 THEN -a ELSE a

Sgn(a) == IF a < 0 THEN -1 ELSE IF a > 0 THEN 1 ELSE 0

\* a * b for a, b >= 0, rounded to the nearest unit (split so that no
\* intermediate product leaves the 32-bit range)
MulAbs(a, b) ==
  LET qa == a \div Scale
      ra == a % Scale
      qb == b \div Scale
      rb == b % Scale
  IN  qa * qb * Scale + qa * rb + ra * qb + (ra * rb + Scale \div 2) \div Scale

\* the double Infinity: a value above every finite number of the model
\* (-Infinity is its negation)
Infinity == 1000000000

\* the double NaN; every value beyond the infinities reads as NaN, so that
\* -NaN is NaN
NaN == 2000000000

\* Number.isNaN(a)
IsNaN(a) == a > Infinity \/ a < -Infinity

\* Number.isFinite(a)
IsFinite(a) == a < Infinity /\ a > -Infinity

\* a * b when a or b is not finite: NaN if either is NaN or the other is 0,
\* else the infinity of the product's sign
MulNonFinite(a, b) ==
  IF IsNaN(a) \/ IsNaN(b) \/ a = 0 \/ b = 0 THEN NaN
  ELSE Sgn(a) * Sgn(b) * Infinity

\* the double product a * b (finite products stay within the model's range
\* for the arguments the model draws)
Mul(a, b) ==
  IF a >= Infinity THEN MulNonFinite(a, b)
  ELSE IF b >= Infinity THEN MulNonFinite(a, b)
  ELSE IF a <= -Infinity \/ b <= -Infinity THEN MulNonFinite(a, b)
  ELSE Sgn(a) * Sgn(b) * MulAbs(Abs(a), Abs(b))

\* a / b for a >= 0, b > 0, rounded to the nearest unit (long division in
\* base 100, so that no intermediate product leaves the 32-bit range)
DivAbs(a, b) ==
  LET q0 == a \div b
      r0 == a % b
      q1 == (r0 * 100) \div b
      r1 == (r0 * 100) % b
      q2 == (r1 * 100) \div b
      r2 == (r1 * 100) % b
  IN  q0 * Scale + q1 * 100 + q2 + (IF 2 * r2 >= b THEN 1 ELSE 0)

\* a / b, b # 0, when a or b is not finite: NaN if either is NaN or both
\* are infinite, 0 if only b is infinite, else the infinity of the sign
DivNonFinite(a, b) ==
  IF IsNaN(a) \/ IsNaN(b) \/ (~IsFinite(a) /\ ~IsFinite(b)) THEN NaN
  ELSE IF IsFinite(a) THEN 0
  ELSE Sgn(a) * Sgn(b) * Infinity

\* the double quotient a / b, b # 0
Div(a, b) ==
  IF a >= Infinity THEN DivNonFinite(a, b)
  ELSE IF b >= Infinity THEN DivNonFinite(a, b)
  ELSE IF a <= -Infinity \/ b <= -Infinity THEN DivNonFinite(a, b)
  ELSE Sgn(a) * Sgn(b) * DivAbs(Abs(a), Abs(b))

\* a + b when a or b is not finite: NaN if either is NaN or they are the
\* two opposite infinities, else the infinite one
AddNonFinite(a, b) ==
  IF IsNaN(a) \/ IsNaN(b) \/ (~IsFinite(a) /\ ~IsFinite(b) /\ a # b) THEN NaN
  ELSE IF IsFinite(a) THEN b
  ELSE a

\* the double sum a + b where a or b may be NaN or infinite
Add(a, b) ==
  IF a >= Infinity THEN AddNonFinite(a, b)
  ELSE IF b >= Infinity THEN AddNonFinite(a, b)
  ELSE IF a <= -Infinity \/ b <= -Infinity THEN AddNonFinite(a, b)
  ELSE a + b

\* the double difference a - b
Sub(a, b) == Add(a, -b)

\* 2 * a
Twice(a) == Add(a, a)

\* the number n (an integer of the program) as a fixed-point number
Num(n) == n * Scale

RECURSIVE SqrtIter(_, _, _)
\* the largest r in lo..hi with r * r <= n
SqrtIter(n, lo, hi) ==
  IF lo >= hi THEN lo
  ELSE LET mid == (lo + hi + 1) \div 2
       IN  IF mid * mid <= n THEN SqrtIter(n, mid, hi) ELSE SqrtIter(n, lo, mid - 1)

\* Math.sqrt(a), a >= 0: the root of a * Scale in units, rounded to nearest
\* (Math.sqrt(NaN) is NaN)
Sqrt(a) ==
  LET n == a * Scale
      r == SqrtIter(n, 0, 46340)
  IN  IF a > Infinity THEN NaN ELSE IF n - r * r > r THEN r + 1 ELSE r

\* 1 + u + u2/2 + u2 u/6, where u2 is the square of u
ExpCubic(u, u2) == Scale + u + u2 \div 2 + Mul(u2, u) \div 6

\* 1 + u + u^2/2 + u^3/6, u >= 0
ExpPoly(u) == ExpCubic(u, Mul(u, u))

\* e if u >= 0, else 1/e, where e is the exponential of |u|
ExpSigned(u, e) == IF u >= 0 THEN e ELSE Div(Scale, e)

\* the argument above which Math.exp overflows (709.78), and below whose
\* negation it is 0 to the model's resolution
ExpOverflow == 7097800

\* Math.exp(u): positive, 1 at 0, increasing, Infinity above ExpOverflow
Exp(u) ==
  IF u > ExpOverflow THEN Infinity
  ELSE IF u < -ExpOverflow THEN 0
  ELSE ExpSigned(u, ExpPoly(Abs(u)))

\* u(27 + u2)/(27 + 9 u2), where u2 is the square of u
TanhPade(u, u2) == Div(Mul(u, 27 * Scale + u2), 27 * Scale + 9 * u2)

\* Math.tanh(u): odd, increasing, 0 at 0, within [-1, 1], NaN at NaN
\* (the Pade form u(27 + u^2)/(27 + 9u^2), which reaches 1 at u = 3)
Tanh(u) ==
  IF u > Infinity \/ u < -Infinity THEN NaN
  ELSE IF u >= 3 * Scale THEN Scale
  ELSE IF u <= -3 * Scale THEN -Scale
  ELSE TanhPade(u, Mul(u, u))

\* Math.atan(z) for 0 <= z <= 1: z / (1 + 0.28 z^2)
AtanUnit(z) == Div(z, Scale + Mul(2800, Mul(z, z)))

Pi == 31416

\* Math.atan2(y, x)
Atan2(y, x) ==
  IF x = 0 /\ y = 0 THEN 0
  ELSE LET ax == Abs(x)
           ay == Abs(y)
           a  == IF ay <= ax THEN AtanUnit(Div(ay, ax))
                 ELSE Pi \div 2 - AtanUnit(Div(ax, ay))
           q  == IF x >= 0 THEN a ELSE Pi - a
       IN  IF y < 0 THEN -q ELSE q

\* Math.max(a, b)
Max(a, b) == IF IsNaN(a) \/ IsNaN(b) THEN NaN ELSE IF a >= b THEN a ELSE b

\* x.toFixed(3): the sign of x and |x| rounded to three decimals (half away
\* from zero); a negative x keeps its "-" even when it rounds to 0.000
ToFixed3(x) ==
  LET a == Abs(x)
      u == Scale \div 1000
  IN  IF IsNaN(x) THEN <<FALSE, NaN>> ELSE <<x < 0, (a + u \div 2) \div u>>

---------------------------------------------------------------------------
(* EmotionField *)

EmotionNames == <<"happiness", "sadness", "fear", "anger", "worry">>

kappa ==
  [happiness |-> 20000, sadness |-> 25000, fear |-> 40000,
   anger |-> 35000, worry |-> 30000]

k_decay ==
  [happiness |-> 5000, sadness |-> 3000, fear |-> 10000,
   anger |-> 7000, worry |-> 4000]

computeHappiness(EP, P, V, SC, Acc, W_p, T) ==
  LET Delta   == Sub(P, EP)
      weight  == Mul(Mul(Mul(V, SC), Acc), W_p)
      scaled  == Mul(Mul(kappa.happiness, weight), Delta)
      decayed == Mul(scaled, Exp(Mul(-k_decay.happiness, T)))
  IN  Tanh(decayed)

\* a sadness reported as the magnitude itself
computeSadnessUnsigned(EP, P, V, SC, Acc, W_p, T) ==
  LET Delta   == Max(Sub(EP, P), 0)
      weight  == Mul(Mul(Mul(V, SC), Acc), W_p)
      scaled  == Mul(Mul(kappa.sadness, weight), Delta)
      decayed == Mul(scaled, Exp(Mul(-k_decay.sadness, T)))
  IN  Tanh(decayed)

computeSadness(EP, P, V, SC, Acc, W_p, T) ==
  LET Delta   == Max(Sub(EP, P), 0)
      weight  == Mul(Mul(Mul(V, SC), Acc), W_p)
      scaled  == Mul(Mul(kappa.sadness, weight), Delta)
      decayed == Mul(scaled, Exp(Mul(-k_decay.sadness, T)))
  IN  -Tanh(decayed)

computeFear(EP, P, V, SC, Acc, W_p, T) ==
  LET Delta   == Max(Sub(EP, P), 0)
      weight  == Mul(Mul(Mul(V, SC), Scale - Acc), W_p)
      scaled  == Mul(Mul(kappa.fear, weight), Delta)
      decayed == Mul(scaled, Exp(Mul(-k_decay.fear, T)))
  IN  Tanh(decayed)

computeAnger(EP, P, V, SC, Acc, W_ext, T) ==
  LET Delta   == Max(Sub(EP, P), 0)
      weight  == Mul(Mul(Mul(V, SC), Scale - Acc), W_ext)
      scaled  == Mul(Mul(kappa.anger, weight), Delta)
      decayed == Mul(scaled, Exp(Mul(-k_decay.anger, T)))
  IN  Tanh(decayed)

computeWorry(EP, P, V, SC, Acc, W_p, T) ==
  LET Delta   == Max(Sub(EP, P), 0)
      weight  == Mul(Mul(Mul(V, SC), Scale - Acc), W_p)
      scaled  == Mul(Mul(kappa.worry, weight), Delta)
      decayed == Mul(scaled, Exp(Mul(-k_decay.worry, T)))
  IN  Tanh(decayed)

computeAllEmotions(EP, P, V, SC, Acc, W_p, T) ==
  LET W_ext == Scale - W_p
  IN  [happiness |-> computeHappiness(EP, P, V, SC, Acc, W_p, T),
       sadness   |-> computeSadness(EP, P, V, SC, Acc, W_p, T),
       fear      |-> computeFear(EP, P, V, SC, Acc, W_p, T),
       anger     |-> computeAnger(EP, P, V, SC, Acc, W_ext, T),
       worry     |-> computeWorry(EP, P, V, SC, Acc, W_p, T)]

\* 1e-9, the guard added to the weight sum: below one unit
WeightEps == 0

RECURSIVE HeightLoop(_, _, _, _)
\* the loop of computeManifoldHeight over Object.entries(emotions)
HeightLoop(emotions, n, h, w) ==
  IF n > Len(EmotionNames) THEN <<h, w>>
  ELSE LET e  == EmotionNames[n]
           wt == kappa[e]
       IN  HeightLoop(emotions, n + 1, Add(h, Mul(emotions[e], wt)), w + wt)

\* (h / (w + 1e-9)) * 2 for the sums hw = <<h, w>> the loop leaves
WeightedHeight(hw) == Mul(Div(hw[1], hw[2] + WeightEps), Num(2))

\* a height that takes its expectation and perception from the params record
computeManifoldHeightOfSliders(x, y, params) ==
  WeightedHeight(HeightLoop(computeAllEmotions(params.EP, params.P, params.V, params.SC,
                                               params.Acc, params.W_p, params.T),
                            1, 0, 0))

computeManifoldHeight(x, y, params) ==
  WeightedHeight(HeightLoop(computeAllEmotions(x, y, params.V, params.SC, params.Acc,
                                               params.W_p, params.T),
                            1, 0, 0))

---------------------------------------------------------------------------
(* MetricEngine *)

\* a 2x2 matrix m, read m[r][c] with r, c in {0, 1}
Mat(a, b, c, d) ==
  [r \in 0..1 |-> [cc \in 0..1 |->
     IF r = 0 THEN (IF cc = 0 THEN a ELSE b) ELSE (IF cc = 0 THEN c ELSE d)]]

\* a point { x, y }
Point(x, y) == [x |-> x, y |-> y]

RECURSIVE HeightsAt(_, _, _)
\* the heights at the points pts, taken in order and appended to zs
HeightsAt(pts, zs, params) ==
  IF Len(zs) = Len(pts) THEN zs
  ELSE HeightsAt(pts,
                 Append(zs, computeManifoldHeight(pts[Len(zs) + 1].x,
                                                  pts[Len(zs) + 1].y, params)),
                 params)

\* the induced metric [[1 + z_x^2, z_x z_y], [z_x z_y, 1 + z_y^2]]
MetricOfSlopes(z_x, z_y) ==
  Mat(Add(Scale, Mul(z_x, z_x)), Mul(z_x, z_y),
      Mul(z_x, z_y), Add(Scale, Mul(z_y, z_y)))

\* the forward differences z_x, z_y of the heights zs = <<z at (x, y),
\* z at (x + h, y), z at (x, y + h)>>
MetricOfHeights(zs, h) ==
  MetricOfSlopes(Div(Sub(zs[2], zs[1]), h), Div(Sub(zs[3], zs[1]), h))

\* lines 162-164 take the height at (x, y), (x + h, y) and (x, y + h)
computeMetricTensor(x, y, params, h) ==
  MetricOfHeights(HeightsAt(<<Point(x, y), Point(x + h, y), Point(x, y + h)>>,
                            <<>>, params),
                  h)

\* 1e-10, the degenerate-determinant threshold: one unit, so |d| < DetEps
\* is d = 0
DetEps == 1

\* an inversion that keeps the sign of the off-diagonal entries
invertMatrix2x2Unsigned(m) ==
  LET d == Sub(Mul(m[0][0], m[1][1]), Mul(m[0][1], m[1][0]))
  IN  IF Abs(d) < DetEps THEN Mat(Scale, 0, 0, Scale)
      ELSE Mat(Div(m[1][1], d), Div(m[0][1], d),
               Div(m[1][0], d), Div(m[0][0], d))

invertMatrix2x2(m) ==
  LET d == Sub(Mul(m[0][0], m[1][1]), Mul(m[0][1], m[1][0]))
  IN  IF Abs(d) < DetEps THEN Mat(Scale, 0, 0, Scale)
      ELSE Mat(Div(m[1][1], d), Div(-m[0][1], d),
               Div(-m[1][0], d), Div(m[0][0], d))

\* the entrywise forward difference (g2 - g) / h
MetricDifference(g, g2, h) ==
  Mat(Div(Sub(g2[0][0], g[0][0]), h), Div(Sub(g2[0][1], g[0][1]), h),
      Div(Sub(g2[1][0], g[1][0]), h), Div(Sub(g2[1][1], g[1][1]), h))

computeMetricDerivative(x, y, params, h, dir) ==
  MetricDifference(computeMetricTensor(x, y, params, h),
                   computeMetricTensor(IF dir = "x" THEN x + h ELSE x,
                                       IF dir = "x" THEN y ELSE y + h, params, h),
                   h)

---------------------------------------------------------------------------
(* ChristoffelCache: christoffelCache is a Map from key strings to numbers, *)
(* here a function whose domain is the set of keys present.                *)

EmptyCache == <<>>

\* a key that keeps every digit of x and y
CacheKeyExact(i, j, k, x, y) == <<i, j, k, <<x < 0, Abs(x)>>, <<y < 0, Abs(y)>>>>

\* `${i}-${j}-${k}-${x.toFixed(3)}-${y.toFixed(3)}`
CacheKey(i, j, k, x, y) == <<i, j, k, ToFixed3(x), ToFixed3(y)>>

\* christoffelCache.has(key)
CacheHas(cache, key) == key \in DOMAIN cache

\* christoffelCache.get(key)
CacheGet(cache, key) == cache[key]

\* christoffelCache.set(key, v)
CacheSet(cache, key, v) ==
  [q \in (DOMAIN cache) \cup {key} |-> IF q = key THEN v ELSE cache[q]]

RECURSIVE GammaLoop(_, _, _, _, _, _, _)
\* a loop whose second term is the derivative along k of g[l][k]
GammaLoopOwnIndex(l, gamma, g_inv, derivs, i, j, k) ==
  IF ~(l < 2) THEN gamma
  ELSE GammaLoop(l + 1,
                 Add(gamma, Mul(Mul(Scale \div 2, g_inv[i][l]),
                                Sub(Add(derivs[j][k][l], derivs[k][l][k]),
                                    derivs[l][j][k]))),
                 g_inv, derivs, i, j, k)

\* the loop  for (let l = 0; l < 2; l++)  of computeChristoffelSymbol
GammaLoop(l, gamma, g_inv, derivs, i, j, k) ==
  IF ~(l < 2) THEN gamma
  ELSE LET term1 == IF j < 2 THEN derivs[j][k][l] ELSE 0
           term2 == IF k < 2 THEN derivs[k][j][l] ELSE 0
           term3 == IF l < 2 THEN derivs[l][j][k] ELSE 0
       IN  GammaLoop(l + 1,
                     Add(gamma, Mul(Mul(Scale \div 2, g_inv[i][l]),
                                    Sub(Add(term1, term2), term3))),
                     g_inv, derivs, i, j, k)

\* lines 193-205: the value computed on a cache miss
\* const derivs = [dg_dx, dg_dy]
Derivs(dg_dx, dg_dy) == [d \in 0..1 |-> IF d = 0 THEN dg_dx ELSE dg_dy]

ChristoffelValue(i, j, k, x, y, params, h) ==
  GammaLoop(0, 0,
            invertMatrix2x2(computeMetricTensor(x, y, params, h)),
            Derivs(computeMetricDerivative(x, y, params, h, "x"),
                   computeMetricDerivative(x, y, params, h, "y")),
            i, j, k)

\* a store that files 0 under the key instead of the value it returns
CacheStoreZero(cache, key, gamma) ==
  [ret |-> gamma, cache |-> CacheSet(cache, key, 0)]

\* lines 207-208 on a miss: store gamma under key and return it
CacheStore(cache, key, gamma) ==
  [ret |-> gamma, cache |-> CacheSet(cache, key, gamma)]

\* a lookup that recomputes and stores on every call
computeChristoffelSymbolOverwrite(cache, i, j, k, x, y, params, h) ==
  CacheStore(cache, CacheKey(i, j, k, x, y), ChristoffelValue(i, j, k, x, y, params, h))

\* returns the value and the cache the call leaves behind
computeChristoffelSymbol(cache, i, j, k, x, y, params, h) ==
  LET key == CacheKey(i, j, k, x, y)
  IN  IF CacheHas(cache, key)
        THEN [ret |-> CacheGet(cache, key), cache |-> cache]
        ELSE CacheStore(cache, key, ChristoffelValue(i, j, k, x, y, params, h))

\* const h = 0.01 of geodesicDerivative and parallelTransport
StepH == 100

\* the index triples of Gxx, Gxy, Gyy, Hxx, Hxy, Hyy, in call order
SixIndices == <<<<0, 0, 0>>, <<0, 0, 1>>, <<0, 1, 1>>, <<1, 0, 0>>, <<1, 0, 1>>, <<1, 1, 1>>>>

RECURSIVE SixSymbols(_, _, _, _, _, _, _)
\* the calls that follow call n, which returned c
SixAfter(n, vals, c, x, y, params, h) ==
  SixSymbols(n + 1, Append(vals, c.ret), c.cache, x, y, params, h)

\* the six consecutive computeChristoffelSymbol calls at (x, y): their
\* values in call order and the cache after the last
SixSymbols(n, vals, cache, x, y, params, h) ==
  IF n > Len(SixIndices) THEN [vals |-> vals, cache |-> cache]
  ELSE SixAfter(n, vals,
                computeChristoffelSymbol(cache, SixIndices[n][1], SixIndices[n][2],
                                         SixIndices[n][3], x, y, params, h),
                x, y, params, h)

---------------------------------------------------------------------------
(* GeodesicIntegrator *)

\* lines 219-222: the acceleration from the six symbols
GeodesicAcceleration(six, vx, vy) ==
  LET Gxx == six.vals[1]
      Gxy == six.vals[2]
      Gyy == six.vals[3]
      Hxx == six.vals[4]
      Hxy == six.vals[5]
      Hyy == six.vals[6]
      ax  == -Add(Add(Mul(Mul(Gxx, vx), vx), Mul(Mul(Twice(Gxy), vx), vy)),
                  Mul(Mul(Gyy, vy), vy))
      ay  == -Add(Add(Mul(Mul(Hxx, vx), vx), Mul(Mul(Twice(Hxy), vx), vy)),
                  Mul(Mul(Hyy, vy), vy))
  IN  [ax |-> ax, ay |-> ay, cache |-> six.cache]

geodesicDerivative(cache, x, y, vx, vy, params) ==
  GeodesicAcceleration(SixSymbols(1, <<>>, cache, x, y, params, StepH), vx, vy)

\* new THREE.Vector3(x, y, z)
Vector3(x, y, z) == [x |-> x, y |-> y, z |-> z]

\* new THREE.Vector2(x, y)
Vector2(x, y) == [x |-> x, y |-> y]

\* the size factor: points are emitted at 3x, 3y
SizeFactor == 3

\* a test that already ends the trace on the boundary
LeftDomainClosed(x, y) == (~IsNaN(x) /\ Abs(x) >= Scale) \/ (~IsNaN(y) /\ Abs(y) >= Scale)

\* the test that ends the trace: Math.abs(x) > 1 || Math.abs(y) > 1
LeftDomain(x, y) == (~IsNaN(x) /\ Abs(x) > Scale) \/ (~IsNaN(y) /\ Abs(y) > Scale)

RECURSIVE GeodesicLoop(_, _, _, _, _, _, _, _, _, _)
\* lines 252-253: pts already holds the new point (x, y); break or go on
GeodesicBreak(s, steps, dt, x, y, vx, vy, pts, cache, params) ==
  IF LeftDomain(x, y) THEN [ret |-> pts, cache |-> cache]
  ELSE GeodesicLoop(s + 1, steps, dt, x, y, vx, vy, pts, cache, params)

\* lines 249-251: the new height and the push
GeodesicPush(s, steps, dt, x, y, vx, vy, pts, cache, params) ==
  GeodesicBreak(s, steps, dt, x, y, vx, vy,
                Append(pts, Vector3(Mul(x, Num(SizeFactor)), Mul(y, Num(SizeFactor)),
                                    computeManifoldHeight(x, y, params))),
                cache, params)

\* lines 247-248: x += dt * vx; y += dt * vy  with the updated velocity
GeodesicMove(s, steps, dt, x, y, vx, vy, pts, cache, params) ==
  GeodesicPush(s, steps, dt, Add(x, Mul(dt, vx)), Add(y, Mul(dt, vy)), vx, vy, pts,
               cache, params)

\* lines 244-245: the velocity update from the four stages
GeodesicKick(k1, k2, k3, k4, s, steps, dt, x, y, vx, vy, pts, params) ==
  GeodesicMove(s, steps, dt, x, y,
               Add(vx, Mul(Div(dt, Num(6)),
                           Add(Add(Add(k1.ax, Twice(k2.ax)), Twice(k3.ax)), k4.ax))),
               Add(vy, Mul(Div(dt, Num(6)),
                           Add(Add(Add(k1.ay, Twice(k2.ay)), Twice(k3.ay)), k4.ay))),
               pts, k4.cache, params)

\* line 242: k4
GeodesicK4(k1, k2, k3, s, steps, dt, x, y, vx, vy, pts, params) ==
  LET hdt == Mul(Scale \div 2, dt)
  IN  GeodesicKick(k1, k2, k3,
                   geodesicDerivative(k3.cache,
                                      Add(x, Mul(dt, Add(vx, Mul(hdt, k2.ax)))),
                                      Add(y, Mul(dt, Add(vy, Mul(hdt, k2.ay)))),
                                      Add(vx, Mul(dt, k3.ax)), Add(vy, Mul(dt, k3.ay)),
                                      params),
                   s, steps, dt, x, y, vx, vy, pts, params)

\* line 241: k3
GeodesicK3(k1, k2, s, steps, dt, x, y, vx, vy, pts, params) ==
  LET hdt == Mul(Scale \div 2, dt)
  IN  GeodesicK4(k1, k2,
                 geodesicDerivative(k2.cache,
                                    Add(x, Mul(hdt, Add(vx, Mul(hdt, k1.ax)))),
                                    Add(y, Mul(hdt, Add(vy, Mul(hdt, k1.ay)))),
                                    Add(vx, Mul(hdt, k2.ax)), Add(vy, Mul(hdt, k2.ay)),
                                    params),
                 s, steps, dt, x, y, vx, vy, pts, params)

\* line 240: k2
GeodesicK2(k1, s, steps, dt, x, y, vx, vy, pts, params) ==
  LET hdt == Mul(Scale \div 2, dt)
  IN  GeodesicK3(k1,
                 geodesicDerivative(k1.cache, Add(x, Mul(hdt, vx)), Add(y, Mul(hdt, vy)),
                                    Add(vx, Mul(hdt, k1.ax)), Add(vy, Mul(hdt, k1.ay)),
                                    params),
                 s, steps, dt, x, y, vx, vy, pts, params)

\* the loop  for (let s = 0; s < steps; s++)  of computeGeodesic; line 239
\* is k1, and each stage hands its result to the next
GeodesicLoop(s, steps, dt, x, y, vx, vy, pts, cache, params) ==
  IF ~(s < steps) THEN [ret |-> pts, cache |-> cache]
  ELSE GeodesicK2(geodesicDerivative(cache, x, y, vx, vy, params),
                  s, steps, dt, x, y, vx, vy, pts, params)

\* a trace whose initial velocity is end - start itself, not its direction
computeGeodesicToEnd(cache, start, end, params, steps) ==
  LET dt == IF steps = 0 THEN 0 ELSE Div(Scale, Num(steps))
      p0 == Vector3(start.x * SizeFactor, start.y * SizeFactor,
                    computeManifoldHeight(start.x, start.y, params))
  IN  GeodesicLoop(0, steps, dt, start.x, start.y, end.x - start.x, end.y - start.y,
                   <<p0>>, cache, params)

\* returns the path and the cache the call leaves behind; steps is a
\* natural number (for steps = 0 the program's dt is Infinity and unused)
computeGeodesic(cache, start, end, params, steps) ==
  LET dt  == IF steps = 0 THEN 0 ELSE Div(Scale, Num(steps))
      x   == start.x
      y   == start.y
      vx0 == end.x - start.x
      vy0 == end.y - start.y
      m   == Sqrt(Mul(vx0, vx0) + Mul(vy0, vy0))
      vm  == IF m = 0 THEN Scale ELSE m
      vx  == Div(vx0, vm)
      vy  == Div(vy0, vm)
      p0  == Vector3(x * SizeFactor, y * SizeFactor, computeManifoldHeight(x, y, params))
  IN  GeodesicLoop(0, steps, dt, x, y, vx, vy, <<p0>>, cache, params)

---------------------------------------------------------------------------
(* ParallelTransportEngine *)

RECURSIVE TransportLoop(_, _, _, _, _, _, _)
\* lines 265-287 of one iteration, given the six symbols at p1
TransportStep(i, Vx, Vy, res, six, path, params) ==
  LET p1  == path[i + 1]
      p2  == path[i + 2]
      tx  == Sub(p2.x, p1.x)
      ty  == Sub(p2.y, p1.y)
      m   == Sqrt(Add(Mul(tx, tx), Mul(ty, ty)))
      tm  == IF m = 0 \/ IsNaN(m) THEN Scale ELSE m
      tnx == Div(tx, tm)
      tny == Div(ty, tm)
      Gxx == six.vals[1]
      Gxy == six.vals[2]
      Gyy == six.vals[3]
      Hxx == six.vals[4]
      Hxy == six.vals[5]
      Hyy == six.vals[6]
      dVx == -Add(Add(Mul(Mul(Gxx, tnx), Vx),
                      Mul(Gxy, Add(Mul(tnx, Vy), Mul(tny, Vx)))),
                  Mul(Mul(Gyy, tny), Vy))
      dVy == -Add(Add(Mul(Mul(Hxx, tnx), Vx),
                      Mul(Hxy, Add(Mul(tnx, Vy), Mul(tny, Vx)))),
                  Mul(Mul(Hyy, tny), Vy))
      Vx2 == Add(Vx, Mul(dVx, tm))
      Vy2 == Add(Vy, Mul(dVy, tm))
  IN  TransportLoop(i + 1, Vx2, Vy2,
                    Append(res, [position |-> p1, vector |-> Vector2(Vx2, Vy2)]),
                    six.cache, path, params)

\* the loop  for (let i = 0; i < path.length - 1; i++)  of parallelTransport;
\* path[i] of the program is path[i + 1] here
TransportLoop(i, Vx, Vy, res, cache, path, params) ==
  IF ~(i < Len(path) - 1) THEN [ret |-> res, cache |-> cache]
  ELSE TransportStep(i, Vx, Vy, res,
                     SixSymbols(1, <<>>, cache,
                                Div(path[i + 1].x, Num(SizeFactor)),
                                Div(path[i + 1].y, Num(SizeFactor)), params, StepH),
                     path, params)

\* a transport whose loop starts at the second point
parallelTransportFromSecond(cache, vec, path, params) ==
  TransportLoop(1, vec.x, vec.y, <<>>, cache, path, params)

\* returns the entries and the cache the call leaves behind
parallelTransport(cache, vec, path, params) ==
  TransportLoop(0, vec.x, vec.y, <<>>, cache, path, params)

---------------------------------------------------------------------------
(* CurvatureAnalyzer *)

\* lines 310-315: the holonomy estimate from the transported vectors
HolonomyOf(trans, init, h) ==
  IF Len(trans.ret) > 0
    THEN LET fv  == trans.ret[Len(trans.ret)].vector
             ang == Atan2(fv.y, fv.x) - Atan2(init.y, init.x)
         IN  [ret |-> Div(ang, Mul(h, h)), cache |-> trans.cache]
    ELSE [ret |-> 0, cache |-> trans.cache]

\* const loop = [...]
CurvatureLoop(x, y, h) ==
  <<[x |-> x, y |-> y], [x |-> x + h, y |-> y], [x |-> x + h, y |-> y + h],
    [x |-> x, y |-> y + h], [x |-> x, y |-> y]>>

\* loop.map((q) => new THREE.Vector3(q.x * 3, q.y * 3, height at q))
LoopPath(loop, params) ==
  [n \in 1..Len(loop) |->
     Vector3(loop[n].x * SizeFactor, loop[n].y * SizeFactor,
             computeManifoldHeight(loop[n].x, loop[n].y, params))]

\* returns the holonomy estimate and the cache the call leaves behind
computeConnectionCurvature(cache, x, y, params, h) ==
  HolonomyOf(parallelTransport(cache, Vector2(Scale, 0),
                               LoopPath(CurvatureLoop(x, y, h), params), params),
             Vector2(Scale, 0), h)

---------------------------------------------------------------------------
(* dominant emotion and severity label *)

RECURSIVE DominantLoopLast(_, _, _, _)
\* a loop that lets a later entry of equal magnitude win
DominantLoopLast(emotions, n, maxMag, dom) ==
  IF n > Len(EmotionNames) THEN [emotion |-> dom, magnitude |-> maxMag]
  ELSE LET e == EmotionNames[n]
           v == emotions[e]
       IN  IF Abs(v) >= maxMag THEN DominantLoopLast(emotions, n + 1, Abs(v), e)
           ELSE DominantLoopLast(emotions, n + 1, maxMag, dom)

RECURSIVE DominantLoop(_, _, _, _)
\* the loop of getDominantEmotion over Object.entries(emotions)
DominantLoop(emotions, n, maxMag, dom) ==
  IF n > Len(EmotionNames) THEN [emotion |-> dom, magnitude |-> maxMag]
  ELSE LET e == EmotionNames[n]
           v == emotions[e]
       IN  IF Abs(v) > maxMag THEN DominantLoop(emotions, n + 1, Abs(v), e)
           ELSE DominantLoop(emotions, n + 1, maxMag, dom)

getDominantEmotion(emotions) == DominantLoop(emotions, 1, 0, "neutral")

labels ==
  [happiness |-> <<"Satisfied", "Pleased", "Happy", "Elated", "Ecstatic">>,
   sadness   |-> <<"Disappointed", "Hurt", "Sad", "Grief", "Despair">>,
   fear      |-> <<"Concerned", "Cautious", "Afraid", "Horror", "Panic">>,
   anger     |-> <<"Annoyed", "Frustrated", "Angry", "Fury", "Rage">>,
   worry     |-> <<"Distressed", "Nervous", "Worried", "Distraught", "Dread">>]

\* an if-chain whose bands include their upper bounds
SeverityTierClosed(magnitude) ==
  LET a == Abs(magnitude)
  IN  IF a <= 2000 THEN 0
      ELSE IF a <= 4000 THEN 1
      ELSE IF a <= 6000 THEN 2
      ELSE IF a <= 8000 THEN 3
      ELSE 4

\* the tier chosen by the if-chain of getSeverityLabel, 0..4
SeverityTier(magnitude) ==
  LET a == Abs(magnitude)
  IN  IF a < 2000 THEN 0
      ELSE IF a < 4000 THEN 1
      ELSE IF a < 6000 THEN 2
      ELSE IF a < 8000 THEN 3
      ELSE 4

\* a lookup that falls back to 'Neutral' only in the lowest tier
getSeverityLabelLowest(emotion, magnitude) ==
  IF emotion \in DOMAIN labels THEN labels[emotion][SeverityTier(magnitude) + 1]
  ELSE IF SeverityTier(magnitude) = 0 THEN "Neutral"
  ELSE "Unknown"

\* labels[emotion]?.[tier] || 'Neutral'  (tier t of the program is entry t + 1)
getSeverityLabel(emotion, magnitude) ==
  LET tier == SeverityTier(magnitude)
  IN  IF emotion \in DOMAIN labels /\ labels[emotion][tier + 1] # ""
        THEN labels[emotion][tier + 1]
        ELSE "Neutral"

---------------------------------------------------------------------------
(* One EmotionalManifold instance and its callers.                         *)
(*   christoffelCache  the instance's private Map                          *)
(*   history           the core calls made so far, each with what it       *)
(*                     returned, oldest first                              *)
(*   input             the argument awaiting a pure query (the             *)
(*                     specifications of the pure functions), else "none"  *)

VARIABLES christoffelCache, history, input

vars == <<christoffelCache, history, input>>

\* an EmotionalParams record; EP and P are the sliders' values
EmotionalParams(V, SC, Acc, W_p, T) ==
  [EP |-> 2000, P |-> 8000, V |-> V, SC |-> SC, Acc |-> Acc, W_p |-> W_p, T |-> T]

\* V = 0: every weight is 0 and the height is constant
ParamsFlat == EmotionalParams(0, Scale, Scale \div 2, Scale \div 2, 0)

\* full attachment and confidence, no acceptance, own perspective
ParamsBent == EmotionalParams(Scale, Scale, 0, Scale, 0)

Params == {ParamsFlat, ParamsBent}

Flat(params) == params.V = 0

\* (0.25, 0)
PointA == Point(2500, 0)

\* a target down and to the right of PointA
PointB == Point(5000, -5000)

\* the number of calls a run of the instance makes
MaxCalls == 3

Record(call, ret) == Append(history, [call |-> call, ret |-> ret])

\* the instance after a call that returned r.ret and left the cache r.cache
Return(call, r) ==
  /\ Len(history) < MaxCalls
  /\ christoffelCache' = r.cache
  /\ history' = Record(call, r.ret)
  /\ UNCHANGED input

CallChristoffel(i, j, k, x, y, params, h) ==
  Return([op |-> "computeChristoffelSymbol", i |-> i, j |-> j, k |-> k,
          x |-> x, y |-> y, params |-> params, h |-> h],
         computeChristoffelSymbol(christoffelCache, i, j, k, x, y, params, h))

CallGeodesic(start, end, params, steps) ==
  Return([op |-> "computeGeodesic", start |-> start, end |-> end,
          params |-> params, steps |-> steps],
         computeGeodesic(christoffelCache, start, end, params, steps))

CallTransport(vec, path, params) ==
  Return([op |-> "parallelTransport", vec |-> vec, path |-> path, params |-> params],
         parallelTransport(christoffelCache, vec, path, params))

CallConnectionCurvature(x, y, params, h) ==
  Return([op |-> "computeConnectionCurvature", x |-> x, y |-> y,
          params |-> params, h |-> h],
         computeConnectionCurvature(christoffelCache, x, y, params, h))

CallHeight(x, y, params) ==
  /\ Len(history) < MaxCalls
  /\ history' = Record([op |-> "computeManifoldHeight", x |-> x, y |-> y,
                        params |-> params], computeManifoldHeight(x, y, params))
  /\ UNCHANGED <<christoffelCache, input>>

Init ==
  /\ christoffelCache = EmptyCache
  /\ history = <<>>
  /\ input = "none"

\* the index triples the callers of the instance ask for
SymbolIndices == {<<0, 0, 1>>, <<0, 1, 0>>}

\* a two-point path from PointA, as computeGeodesic emits it
ShortPath == <<Vector3(7500, 0, 0), Vector3(15000, -15000, 0)>>

Next ==
  \/ \E t \in SymbolIndices, params \in Params :
       CallChristoffel(t[1], t[2], t[3], PointA.x, PointA.y, params, StepH)
  \/ \E params \in Params : CallGeodesic(PointA, PointB, params, 1)
  \/ CallTransport(Vector2(Scale, 0), ShortPath, ParamsBent)
  \/ CallConnectionCurvature(PointA.x, PointA.y, ParamsBent, StepH)
  \/ CallHeight(PointA.x, PointA.y, ParamsBent)

Spec == Init /\ [][Next]_vars

---------------------------------------------------------------------------
(* Properties of the instance under Spec *)

\* the calls of operation op made so far, as positions in history
CallsOf(op) == {n \in 1..Len(history) : history[n].call.op = op}

\* what computeChristoffelSymbol returns for the arguments of call c on an
\* instance whose cache is empty
FreshSymbol(c) ==
  computeChristoffelSymbol(EmptyCache, c.i, c.j, c.k, c.x, c.y, c.params, c.h).ret

\* C1 (cache transparency): every value computeChristoffelSymbol has
\* returned on the instance equals the value a fresh computation with an
\* empty cache returns for exactly those arguments.
C1_CacheTransparency ==
  \A n \in CallsOf("computeChristoffelSymbol") :
    history[n].ret = FreshSymbol(history[n].call)

\* the values of computeChristoffelSymbol(i, 0, 1, ...) and then
\* computeChristoffelSymbol(i, 1, 0, ...) called now on the instance
SymmetricPair(i, x, y, params, h) ==
  LET a == computeChristoffelSymbol(christoffelCache, i, 0, 1, x, y, params, h)
      b == computeChristoffelSymbol(a.cache, i, 1, 0, x, y, params, h)
  IN  <<a.ret, b.ret>>

\* C2 (Christoffel symmetry): in every reachable state of the cache, for
\* every i in {0, 1} and params, computeChristoffelSymbol(i, 0, 1, x, y,
\* params) equals computeChristoffelSymbol(i, 1, 0, x, y, params).
C2_Symmetry ==
  \A i \in 0..1, params \in Params :
    LET pair == SymmetricPair(i, PointA.x, PointA.y, params, StepH)
    IN  pair[1] = pair[2]

\* C3 (determinism): two calls of the same core operation with identical
\* arguments return identical results, whatever calls happen before or
\* between them.
C3_Determinism ==
  \A m, n \in 1..Len(history) :
    history[m].call = history[n].call => history[m].ret = history[n].ret

\* a geodesic is asked for, another call changes the cache, and the same
\* geodesic is asked for again
C3_Witness ==
  /\ Len(history) = 3
  /\ history[1].call.op = "computeGeodesic"
  /\ history[3].call = history[1].call
  /\ history[2].call # history[1].call
  /\ Len(history[3].ret) = 2

\* C4 (flat-surface Christoffel reduction): whenever params make the height
\* constant, computeChristoffelSymbol returns 0, also after earlier calls
\* made under non-flat params at the same quantized point.
C4_FlatSymbolsVanish ==
  \A n \in CallsOf("computeChristoffelSymbol") :
    Flat(history[n].call.params) => history[n].ret = 0

\* the displacement dt (end - start) / |end - start| of one step, times the
\* size factor, for the geodesic call c
StraightStep(c) ==
  LET dt  == Div(Scale, Num(c.steps))
      vx0 == c.end.x - c.start.x
      vy0 == c.end.y - c.start.y
      vm  == Sqrt(Mul(vx0, vx0) + Mul(vy0, vy0))
  IN  [x |-> SizeFactor * Mul(dt, Div(vx0, vm)), y |-> SizeFactor * Mul(dt, Div(vy0, vm))]

\* every consecutive pair of points of pts differs by the displacement d
StraightTrace(pts, d) ==
  \A n \in 1..(Len(pts) - 1) :
    pts[n + 1].x - pts[n].x = d.x /\ pts[n + 1].y - pts[n].y = d.y

\* C5 (flat-surface geodesic): whenever params make the height constant,
\* computeGeodesic returns a straight-line trace at constant velocity, in
\* every reachable state of the instance.
C5_FlatGeodesicStraight ==
  \A n \in CallsOf("computeGeodesic") :
    Flat(history[n].call.params) =>
      StraightTrace(history[n].ret, StraightStep(history[n].call))


---------------------------------------------------------------------------
(* Geodesic traces: one computeGeodesic call on an instance whose cache    *)
(* earlier computeChristoffelSymbol calls may have filled.                 *)

\* the largest step count asked for
MaxSteps == 2

\* the number of computeChristoffelSymbol calls that may precede the trace
MaxWarmCalls == 1

\* starts inside the domain, near its edge and outside it
GeodesicStarts == {PointA, Point(5000, 0), Point(9000, 0), Point(15000, 0)}

\* targets inside and outside the domain
GeodesicEnds == {PointB, Point(20000, 0)}

WarmPoints == {Point(5000, 0), Point(9000, 0)}

WarmCache(pt) ==
  /\ Len(history) < MaxWarmCalls
  /\ CallChristoffel(0, 0, 0, pt.x, pt.y, ParamsBent, StepH)

TraceGeodesic(start, end, params, steps) ==
  /\ CallsOf("computeGeodesic") = {}
  /\ CallGeodesic(start, end, params, steps)

NextGeodesic ==
  \/ \E pt \in WarmPoints : WarmCache(pt)
  \/ \E start \in GeodesicStarts, end \in GeodesicEnds, params \in Params,
        steps \in 0..MaxSteps : TraceGeodesic(start, end, params, steps)

SpecGeodesic == Init /\ [][NextGeodesic]_vars

\* the emitted point p lies outside [-1, 1]^2 (p carries 3x, 3y)
Outside(p) == Abs(p.x) > SizeFactor * Scale \/ Abs(p.y) > SizeFactor * Scale

\* C6 (geodesic path length): computeGeodesic returns at least 1 and at
\* most steps + 1 points, and exactly steps + 1 unless some emitted point
\* left the domain.
C6_PathLength ==
  \A n \in CallsOf("computeGeodesic") :
    LET pts   == history[n].ret
        steps == history[n].call.steps
    IN  /\ 1 <= Len(pts) /\ Len(pts) <= steps + 1
        /\ Len(pts) = steps + 1 \/ \E q \in 1..Len(pts) : Outside(pts[q])

\* a two-step trace from inside the domain that ends early, on the point
\* that left it
C6_Witness ==
  \E n \in CallsOf("computeGeodesic") :
    /\ history[n].call.steps = 2
    /\ ~LeftDomain(history[n].call.start.x, history[n].call.start.y)
    /\ Len(history[n].ret) = 2
    /\ Outside(history[n].ret[2])

\* C7 (geodesic boundary termination): no point is emitted after a point
\* outside the domain; only the last point of a returned path can lie
\* outside [-1, 1]^2.
C7_OnlyLastOutside ==
  \A n \in CallsOf("computeGeodesic") :
    \A q \in 1..(Len(history[n].ret) - 1) : ~Outside(history[n].ret[q])

---------------------------------------------------------------------------
(* Transport along given paths *)

\* the longest path handed to parallelTransport
MaxPathLen == 3

\* emitted points at (0.25, 0), (0.5, -0.5) and (0.9, 0)
PathPoints == {Vector3(7500, 0, 0), Vector3(15000, -15000, 0), Vector3(27000, 0, 0)}

\* every path of at most MaxPathLen points
Paths == UNION {[1..n -> PathPoints] : n \in 0..MaxPathLen}

NextTransport ==
  \E path \in Paths, vec \in {Vector2(Scale, 0), Vector2(0, Scale)}, params \in Params :
    /\ history = <<>>
    /\ CallTransport(vec, path, params)

SpecTransport == Init /\ [][NextTransport]_vars

\* C8 (transport length), as stated: over a path of N points
\* parallelTransport returns exactly N - 1 entries, for every N.
C8_LengthAsStated ==
  \A n \in CallsOf("parallelTransport") :
    Len(history[n].ret) = Len(history[n].call.path) - 1

\* C8 (transport length), amended: N - 1 entries over a path of N >= 1
\* points, and no entry over the empty path.
C8_Length ==
  \A n \in CallsOf("parallelTransport") :
    Len(history[n].ret) =
      IF Len(history[n].call.path) = 0 THEN 0 ELSE Len(history[n].call.path) - 1

\* a path of three points was transported along
C8_Witness ==
  \E n \in CallsOf("parallelTransport") :
    Len(history[n].call.path) = 3 /\ Len(history[n].ret) = 2

---------------------------------------------------------------------------
(* The pure queries: input holds the argument, the query records the       *)
(* result.                                                                 *)

\* the values an emotion takes in the records queried
EmotionLevels == {-8000, 0, 3000, 8000}

EmotionRecords ==
  [happiness : EmotionLevels, sadness : EmotionLevels, fear : EmotionLevels,
   anger : EmotionLevels, worry : EmotionLevels]

InitDominant ==
  /\ christoffelCache = EmptyCache
  /\ history = <<>>
  /\ input \in EmotionRecords

QueryDominant ==
  /\ history = <<>>
  /\ history' = Record([op |-> "getDominantEmotion", emotions |-> input],
                        getDominantEmotion(input))
  /\ UNCHANGED <<christoffelCache, input>>

SpecDominant == InitDominant /\ [][QueryDominant]_vars

\* the largest |value| of the record
MaxMagnitude(emotions) ==
  CHOOSE m \in {Abs(emotions[e]) : e \in DOMAIN emotions} :
    \A e \in DOMAIN emotions : Abs(emotions[e]) <= m

\* the first kind, in iteration order, whose |value| is m
FirstAttaining(emotions, m) ==
  EmotionNames[CHOOSE q \in 1..Len(EmotionNames) :
                 /\ Abs(emotions[EmotionNames[q]]) = m
                 /\ \A r \in 1..(q - 1) : Abs(emotions[EmotionNames[r]]) # m]

\* C9 (dominant emotion), as stated: the magnitude is the largest |value|
\* and the kind is the first of the five, in iteration order, whose |value|
\* attains it.
C9_DominantAsStated ==
  \A n \in CallsOf("getDominantEmotion") :
    LET emotions == history[n].call.emotions
    IN  /\ history[n].ret.magnitude = MaxMagnitude(emotions)
        /\ history[n].ret.emotion = FirstAttaining(emotions, MaxMagnitude(emotions))

\* C9 (dominant emotion), amended: the magnitude is the largest |value|;
\* the kind is the first of the five whose |value| attains it when that
\* maximum is above 0, and "neutral" when every value is 0.
C9_Dominant ==
  \A n \in CallsOf("getDominantEmotion") :
    LET emotions == history[n].call.emotions
        m        == MaxMagnitude(emotions)
    IN  /\ history[n].ret.magnitude = m
        /\ history[n].ret.emotion =
             IF m = 0 THEN "neutral" ELSE FirstAttaining(emotions, m)

\* a record whose largest magnitude is shared by happiness (negative) and
\* fear was queried, and happiness won
C9_Witness ==
  \E n \in CallsOf("getDominantEmotion") :
    /\ history[n].call.emotions.happiness = -8000
    /\ history[n].call.emotions.fear = 8000
    /\ history[n].ret = [emotion |-> "happiness", magnitude |-> 8000]

\* the magnitudes queried: every multiple of 0.05 in [-1, 1] and its two
\* neighbours
Magnitudes ==
  {m \in {500 * q + d : q \in -20..20, d \in -1..1} : Abs(m) <= Scale}

InitSeverity ==
  /\ christoffelCache = EmptyCache
  /\ history = <<>>
  /\ input \in [emotion : DOMAIN labels, magnitude : Magnitudes]

QuerySeverity ==
  /\ history = <<>>
  /\ history' = Record([op |-> "getSeverityLabel", emotion |-> input.emotion,
                         magnitude |-> input.magnitude],
                        getSeverityLabel(input.emotion, input.magnitude))
  /\ UNCHANGED <<christoffelCache, input>>

SpecSeverity == InitSeverity /\ [][QuerySeverity]_vars

\* the band of a among [0, 0.2), [0.2, 0.4), [0.4, 0.6), [0.6, 0.8),
\* [0.8, 1.0], counted from 0: the number of lower bounds above 0 that a
\* has reached
Band(a) == Cardinality({b \in {2000, 4000, 6000, 8000} : b <= a})

\* C10 (severity banding): for each of the five kinds getSeverityLabel
\* returns that kind's label of the band of |m|, lower bounds inclusive and
\* the sign of m ignored.
C10_SeverityBands ==
  \A n \in CallsOf("getSeverityLabel") :
    history[n].ret =
      labels[history[n].call.emotion][Band(Abs(history[n].call.magnitude)) + 1]

\* a negative magnitude on a lower bound was labelled with the band it opens
C10_Witness ==
  \E n \in CallsOf("getSeverityLabel") :
    /\ history[n].call = [op |-> "getSeverityLabel", emotion |-> "fear",
                           magnitude |-> -2000]
    /\ history[n].ret = "Cautious"

---------------------------------------------------------------------------
(* Severity labels for any kind string, as StatsPanel asks for them with   *)
(* the kind getDominantEmotion returned.                                   *)

\* kind strings that are no key of labels: the kind getDominantEmotion
\* returns for an all-zero record, a name outside the five, a known name in
\* another case, and the empty string
UnknownKinds == {"neutral", "joy", "Happiness", ""}

InitLabel ==
  /\ christoffelCache = EmptyCache
  /\ history = <<>>
  /\ input \in [emotion : UnknownKinds \cup DOMAIN labels, magnitude : Magnitudes]

SpecLabel == InitLabel /\ [][QuerySeverity]_vars

\* C11 (unknown kind): for a kind that is none of the five emotion names,
\* the 'neutral' of getDominantEmotion included, getSeverityLabel returns
\* 'Neutral' whatever the magnitude.
C11_UnknownKindNeutral ==
  \A n \in CallsOf("getSeverityLabel") :
    history[n].call.emotion \notin DOMAIN labels => history[n].ret = "Neutral"

\* the kind 'neutral' was labelled at a magnitude of the highest tier
C11_Witness ==
  \E n \in CallsOf("getSeverityLabel") :
    /\ history[n].call.emotion = "neutral"
    /\ history[n].call.magnitude = 9000
    /\ history[n].ret = "Neutral"

---------------------------------------------------------------------------
(* The emotion field queried at finite arguments, inside and outside the   *)
(* ranges the sliders offer.                                               *)

\* expectation and perception: -10, 0.25 and 10
FieldLevels == {-100000, 2500, 100000}

\* the weights the sliders offer: 0, 0.5 and 1
WeightLevels == {0, 5000, 10000}

\* times: far in the past, now, one unit ahead, far ahead
TimeLevels == {-30000000, 0, 10000, 30000000}

FieldArgs ==
  [EP : FieldLevels, P : FieldLevels, V : {0, 10000}, SC : {10000},
   Acc : WeightLevels, W_p : WeightLevels, T : TimeLevels]

InitField ==
  /\ christoffelCache = EmptyCache
  /\ history = <<>>
  /\ input \in FieldArgs

QueryEmotions ==
  /\ history = <<>>
  /\ history' = Record([op |-> "computeAllEmotions", args |-> input],
                        computeAllEmotions(input.EP, input.P, input.V, input.SC,
                                           input.Acc, input.W_p, input.T))
  /\ UNCHANGED <<christoffelCache, input>>

\* computeManifoldHeight(x, y, params) at x = input.EP, y = input.P
QueryHeight ==
  /\ history = <<>>
  /\ history' = Record([op |-> "computeManifoldHeight", args |-> input],
                        computeManifoldHeight(input.EP, input.P, input))
  /\ UNCHANGED <<christoffelCache, input>>

NextField == QueryEmotions \/ QueryHeight

SpecField == InitField /\ [][NextField]_vars

\* the number v lies in [-bound, bound] (false of NaN)
Within(v, bound) == -bound <= v /\ v <= bound

\* C12 (boundedness): for all finite arguments each of the five values of
\* computeAllEmotions lies in [-1, 1], and computeManifoldHeight lies in
\* [-2, 2].
C12_Bounded ==
  /\ \A n \in CallsOf("computeAllEmotions") :
       \A e \in DOMAIN history[n].ret : Within(history[n].ret[e], Scale)
  /\ \A n \in CallsOf("computeManifoldHeight") : Within(history[n].ret, 2 * Scale)

---------------------------------------------------------------------------
(* invertMatrix2x2 on given matrices *)

\* the entries of the matrices inverted: -2, 0, 1, 2, 3
MatrixEntries == {-20000, 0, 10000, 20000, 30000}

\* every matrix over MatrixEntries, and 0.005 times the identity, which is
\* invertible with a determinant below the threshold
Matrices ==
  {Mat(a, b, c, d) : a \in MatrixEntries, b \in MatrixEntries,
                     c \in MatrixEntries, d \in MatrixEntries}
    \cup {Mat(50, 0, 0, 50)}

InitInvert ==
  /\ christoffelCache = EmptyCache
  /\ history = <<>>
  /\ input \in Matrices

QueryInvert ==
  /\ history = <<>>
  /\ history' = Record([op |-> "invertMatrix2x2", m |-> input], invertMatrix2x2(input))
  /\ UNCHANGED <<christoffelCache, input>>

SpecInvert == InitInvert /\ [][QueryInvert]_vars

\* the determinant of m, as line 172 computes it
Determinant(m) == Sub(Mul(m[0][0], m[1][1]), Mul(m[0][1], m[1][0]))

\* the matrix product a b, every product and sum rounded
MatMul(a, b) ==
  [r \in 0..1 |-> [c \in 0..1 |-> Mul(a[r][0], b[0][c]) + Mul(a[r][1], b[1][c])]]

Identity == Mat(Scale, 0, 0, Scale)

\* the units by which an entry of m times the rounded inverse of m can miss
\* the identity: half a unit per entry of the inverse, weighted by the
\* largest row sum of m, and the rounding of the products
RoundingBound(m) ==
  Max(Abs(m[0][0]) + Abs(m[0][1]), Abs(m[1][0]) + Abs(m[1][1])) \div (2 * Scale) + 2

\* every entry of p is within bound units of the identity's
NearIdentity(p, bound) ==
  \A r \in 0..1, c \in 0..1 : Abs(p[r][c] - Identity[r][c]) <= bound

---------------------------------------------------------------------------
(* computeMetricTensor at given points, params and steps h *)

\* attachment and confidence 1, acceptance and perspective 0.5, T = 1
ParamsMid == EmotionalParams(Scale, Scale, Scale \div 2, Scale \div 2, Scale)

\* the same weights at T = -3000, a finite time far in the past
ParamsPast == EmotionalParams(Scale, Scale, Scale \div 2, Scale \div 2, -30000000)

MetricPoints ==
  {PointA, PointB, Point(0, 2500), Point(-5000, 5000), Point(9000, 1000), Point(0, 0)}

\* the steps h: 0.01 (the callers' value), 0.05 and 0.1
MetricSteps == {100, 500, 1000}

InitMetric ==
  /\ christoffelCache = EmptyCache
  /\ history = <<>>
  /\ input \in [pt : MetricPoints, h : MetricSteps,
                params : {ParamsFlat, ParamsBent, ParamsMid, ParamsPast}]

QueryMetric ==
  /\ history = <<>>
  /\ history' = Record([op |-> "computeMetricTensor", x |-> input.pt.x, y |-> input.pt.y,
                         params |-> input.params, h |-> input.h],
                        computeMetricTensor(input.pt.x, input.pt.y, input.params, input.h))
  /\ UNCHANGED <<christoffelCache, input>>

SpecMetric == InitMetric /\ [][QueryMetric]_vars

\* the forward-difference slope of the height from (x, y) to (x2, y2)
Slope(x, y, x2, y2, params, h) ==
  Div(Sub(computeManifoldHeight(x2, y2, params), computeManifoldHeight(x, y, params)), h)

\* a >= b as the program compares doubles: false when either is NaN
AtLeast(a, b) == ~IsNaN(a) /\ ~IsNaN(b) /\ a >= b

\* g is [[1 + a^2, a b], [a b, 1 + b^2]] with diagonal entries >= 1, its
\* determinant is 1 + a^2 + b^2 to within two units of rounding and at
\* least 1, and invertMatrix2x2 does not take the identity fallback on it
GraphMetric(g, a, b) ==
  /\ g = Mat(Add(Scale, Mul(a, a)), Mul(a, b), Mul(a, b), Add(Scale, Mul(b, b)))
  /\ g[0][1] = g[1][0]
  /\ AtLeast(g[0][0], Scale) /\ AtLeast(g[1][1], Scale)
  /\ AtLeast(Determinant(g), Scale)
  /\ Abs(Determinant(g) - (Scale + Mul(a, a) + Mul(b, b))) <= 2
  /\ ~(Abs(Determinant(g)) < DetEps)

\* C14 (metric form): for every point, params and h computeMetricTensor
\* returns the symmetric matrix [[1 + a^2, a b], [a b, 1 + b^2]] of the
\* forward-difference slopes a, b, with diagonal entries >= 1 and
\* determinant 1 + a^2 + b^2 >= 1, so that the identity fallback of
\* invertMatrix2x2 is not taken on it.
C14_MetricForm ==
  \A n \in CallsOf("computeMetricTensor") :
    LET c == history[n].call
    IN  GraphMetric(history[n].ret,
                    Slope(c.x, c.y, c.x + c.h, c.y, c.params, c.h),
                    Slope(c.x, c.y, c.x, c.y + c.h, c.params, c.h))

---------------------------------------------------------------------------
(* The cache across the calls of Spec *)

\* C15 (write-once cache): no call removes a key of christoffelCache or
\* changes the value stored under it; the set of keys only grows.
C15_WriteOnce ==
  [][\A key \in DOMAIN christoffelCache :
       /\ key \in DOMAIN christoffelCache'
       /\ christoffelCache'[key] = christoffelCache[key]]_vars

\* a symbol stored under flat params is still in the cache, unchanged,
\* after a geodesic under other params has read it and added its own keys
C15_Witness ==
  /\ Len(history) = 2
  /\ history[1].call.op = "computeChristoffelSymbol"
  /\ Flat(history[1].call.params)
  /\ history[2].call.op = "computeGeodesic"
  /\ ~Flat(history[2].call.params)
  /\ CacheHas(christoffelCache, CacheKey(0, 0, 1, PointA.x, PointA.y))
  /\ CacheGet(christoffelCache, CacheKey(0, 0, 1, PointA.x, PointA.y)) = history[1].ret
  /\ Cardinality(DOMAIN christoffelCache) > 6

---------------------------------------------------------------------------
(* Gaussian curvature, gradient field and perspective fiber.  Second       *)
(* differences of heights at h = 0.01 are coarse at the model's            *)
(* resolution; the model keeps their computation, not their accuracy.      *)

\* 1e-10, the guard added to the denominator: below one unit
CurvatureEps == 0

\* lines 148-149: num / (den + 1e-10) from the five difference quotients
CurvatureOf(z_xx, z_yy, z_xy, z_x, z_y) ==
  LET num == Mul(z_xx, z_yy) - Mul(z_xy, z_xy)
      s   == Scale + Mul(z_x, z_x) + Mul(z_y, z_y)
      den == Mul(s, s)
  IN  Div(num, den + CurvatureEps)

\* lines 142-147: the difference quotients of the heights zs, taken at
\* (x, y), (x + h, y), (x - h, y), (x, y + h), (x, y - h), (x + h, y + h),
\* (x + h, y - h), (x - h, y + h), (x - h, y - h) in this order
CurvatureOfHeights(zs, h) ==
  CurvatureOf(Div(zs[2] - 2 * zs[1] + zs[3], Mul(h, h)),
              Div(zs[4] - 2 * zs[1] + zs[5], Mul(h, h)),
              Div(zs[6] - zs[7] - zs[8] + zs[9], Mul(Num(4), Mul(h, h))),
              Div(zs[2] - zs[3], Mul(Num(2), h)),
              Div(zs[4] - zs[5], Mul(Num(2), h)))

computeCurvature(x, y, params, h) ==
  CurvatureOfHeights(
    HeightsAt(<<Point(x, y), Point(x + h, y), Point(x - h, y), Point(x, y + h),
                Point(x, y - h), Point(x + h, y + h), Point(x + h, y - h),
                Point(x - h, y + h), Point(x - h, y - h)>>, <<>>, params),
    h)

\* v.divideScalar(len || 1)
DivideScalar(v, len) ==
  Vector3(Div(v.x, IF len = 0 THEN Scale ELSE len),
          Div(v.y, IF len = 0 THEN Scale ELSE len),
          Div(v.z, IF len = 0 THEN Scale ELSE len))

\* THREE.Vector3.normalize()
Normalize(v) == DivideScalar(v, Sqrt(Mul(v.x, v.x) + Mul(v.y, v.y) + Mul(v.z, v.z)))

\* line 158 from the heights zs at (x, y), (x + h, y), (x, y + h)
VectorOfHeights(zs, h) ==
  Normalize(Vector3(-Div(zs[2] - zs[1], h), -Div(zs[3] - zs[1], h), 0))

computeVectorField(x, y, params) ==
  VectorOfHeights(HeightsAt(<<Point(x, y), Point(x + StepH, y), Point(x, y + StepH)>>,
                            <<>>, params),
                  StepH)

\* const N = 20
FiberN == 20

\* a height taken under the caller's own perspective weight
SpreadW_pKeep(params, w_p) == params

\* { ...params, W_p: w_p }: a new record, params itself is not written
SpreadW_p(params, w_p) == [params EXCEPT !.W_p = w_p]

RECURSIVE FiberLoop(_, _, _, _)
\* an iteration that assigns params.W_p = w_p on the caller's record
FiberPushInPlace(i, pts, base, params, w_p) ==
  FiberLoop(i + 1,
            Append(pts, Vector3(base.x * SizeFactor, base.y * SizeFactor,
                                Add(computeManifoldHeight(base.x, base.y,
                                                          SpreadW_p(params, w_p)),
                                    Mul(w_p - Scale \div 2, Num(2))))),
            base, SpreadW_p(params, w_p))

\* lines 297-299 for the weight w_p of iteration i: the height under a copy
\* of params, the offset and the push
FiberPush(i, pts, base, params, w_p) ==
  FiberLoop(i + 1,
            Append(pts, Vector3(base.x * SizeFactor, base.y * SizeFactor,
                                Add(computeManifoldHeight(base.x, base.y,
                                                          SpreadW_p(params, w_p)),
                                    Mul(w_p - Scale \div 2, Num(2))))),
            base, params)

\* the loop  for (let i = 0; i <= N; i++)  of computeFiberBundle; returns
\* the points and the caller's params record as the loop leaves it
FiberLoop(i, pts, base, params) ==
  IF ~(i <= FiberN) THEN [ret |-> pts, params |-> params]
  ELSE FiberPush(i, pts, base, params, Div(Num(i), Num(FiberN)))

computeFiberBundle(base, params) == FiberLoop(0, <<>>, base, params)

---------------------------------------------------------------------------
(* The caller's objects across calls.  input holds the records and arrays  *)
(* a caller owns and passes by reference; each action hands them to one    *)
(* operation and keeps what the operation leaves of them.                  *)

\* the number of calls a caller makes on its objects
MaxFrameCalls == 2

\* the objects of a caller: its params record, two end points, a vector, a
\* path and a base point
CallerObjects(params) ==
  [params |-> params, start |-> PointA, end |-> PointB,
   vec |-> Vector2(Scale, 0), path |-> ShortPath, base |-> PointA]

InitFrame ==
  /\ christoffelCache = EmptyCache
  /\ history = <<>>
  /\ input \in {CallerObjects(params) : params \in {ParamsFlat, ParamsBent, ParamsMid}}

\* the operations that never read or write this.christoffelCache
CacheFree == {"computeAllEmotions", "getDominantEmotion", "getSeverityLabel",
              "computeManifoldHeight", "computeCurvature", "computeVectorField",
              "computeFiberBundle"}

\* a call of a method that assigns to locals only: the cache is as the
\* method leaves it and the caller's params record as params
FrameReturn(op, ret, cache, params) ==
  /\ Len(history) < MaxFrameCalls
  /\ christoffelCache' = cache
  /\ history' = Record([op |-> op], ret)
  /\ input' = [input EXCEPT !.params = params]

\* a call of a method that works on christoffelCache
FrameCached(op, r) == FrameReturn(op, r.ret, r.cache, input.params)

\* a call of a method without access to christoffelCache
FramePure(op, ret) == FrameReturn(op, ret, christoffelCache, input.params)

\* computeFiberBundle, whose loop holds the caller's record
FrameFiber(r) == FrameReturn("computeFiberBundle", r.ret, christoffelCache, r.params)

EmotionsOf(pt, params) ==
  computeAllEmotions(pt.x, pt.y, params.V, params.SC, params.Acc, params.W_p, params.T)

DominantOf(emotions) == getDominantEmotion(emotions)

SeverityOf(dom) == getSeverityLabel(dom.emotion, dom.magnitude)

NextFrame ==
  \/ \E t \in SymbolIndices :
       FrameCached("computeChristoffelSymbol",
                   computeChristoffelSymbol(christoffelCache, t[1], t[2], t[3],
                                            input.base.x, input.base.y,
                                            input.params, StepH))
  \/ FrameCached("computeGeodesic",
                 computeGeodesic(christoffelCache, input.start, input.end,
                                 input.params, 1))
  \/ FrameCached("parallelTransport",
                 parallelTransport(christoffelCache, input.vec, input.path,
                                   input.params))
  \/ FrameCached("computeConnectionCurvature",
                 computeConnectionCurvature(christoffelCache, input.base.x,
                                            input.base.y, input.params, StepH))
  \/ FramePure("computeAllEmotions", EmotionsOf(input.base, input.params))
  \/ FramePure("getDominantEmotion",
               DominantOf(EmotionsOf(input.base, input.params)))
  \/ FramePure("getSeverityLabel",
               SeverityOf(DominantOf(EmotionsOf(input.base, input.params))))
  \/ FramePure("computeManifoldHeight",
               computeManifoldHeight(input.base.x, input.base.y, input.params))
  \/ FramePure("computeCurvature",
               computeCurvature(input.base.x, input.base.y, input.params, StepH))
  \/ FramePure("computeVectorField",
               computeVectorField(input.base.x, input.base.y, input.params))
  \/ FrameFiber(computeFiberBundle(input.base, input.params))

SpecFrame == InitFrame /\ [][NextFrame]_vars

---------------------------------------------------------------------------
(* computeFiberBundle over base points and params *)

\* params records over two values of V, Acc and T and three of W_p
FiberParams ==
  {EmotionalParams(V, Scale, Acc, W_p, T) :
     V \in {0, Scale}, Acc \in {0, Scale \div 2}, W_p \in {0, Scale \div 2, Scale},
     T \in {0, Scale}}

InitFiber ==
  /\ christoffelCache = EmptyCache
  /\ history = <<>>
  /\ input \in [base : MetricPoints, params : FiberParams]

QueryFiber ==
  /\ history = <<>>
  /\ history' = Record([op |-> "computeFiberBundle", base |-> input.base,
                        params |-> input.params],
                       computeFiberBundle(input.base, input.params).ret)
  /\ UNCHANGED <<christoffelCache, input>>

SpecFiber == InitFiber /\ [][QueryFiber]_vars

\* the perspective weight of point number i (from 1): (i - 1) / 20
FiberWeight(i) == ((i - 1) * Scale) \div 20

\* C17 (fiber sample): computeFiberBundle(base, params) returns 21 points;
\* point number i lies at x, y = 3 base and at the height of base under
\* params with W_p replaced by (i - 1)/20, plus 2 ((i - 1)/20 - 0.5).
C17_FiberSample ==
  \A n \in CallsOf("computeFiberBundle") :
    LET c == history[n].call
        pts == history[n].ret
    IN  /\ Len(pts) = 21
        /\ \A i \in 1..21 :
             /\ pts[i].x = 3 * c.base.x
             /\ pts[i].y = 3 * c.base.y
             /\ pts[i].z =
                  computeManifoldHeight(c.base.x, c.base.y,
                    [EP |-> c.params.EP, P |-> c.params.P, V |-> c.params.V,
                     SC |-> c.params.SC, Acc |-> c.params.Acc,
                     W_p |-> FiberWeight(i), T |-> c.params.T])
                  + 2 * (FiberWeight(i) - Scale \div 2)

\* a fiber over (0.25, 0) under W_p = 0.5 whose height differs between
\* the weights 0 and 1 by more than the offset
C17_Witness ==
  \E n \in CallsOf("computeFiberBundle") :
    /\ history[n].call.base = PointA
    /\ history[n].call.params.W_p = Scale \div 2
    /\ Len(history[n].ret) = 21
    /\ history[n].ret[21].z - history[n].ret[1].z # 2 * Scale

---------------------------------------------------------------------------
(* The visualization hook (useManifoldVisualization) and its page.  input  *)
(* is the hook's state: params, the settings the animation and the         *)
(* transport read or write, geodesicPathsRef and transportVectorsRef.      *)
(* history lists the events in their order; christoffelCache is the cache  *)
(* of manifoldRef.  The scene objects and the remaining settings (grid,    *)
(* vectors, resolution, ...) are not part of the state.                    *)

\* the events of a run
MaxEvents == 3

\* steps of a computed geodesic (the hook passes 100; the model's paths
\* are shorter)
GeodesicSteps == 1

\* useState<EmotionalParams>({ EP: 0.7, P: 0.3, V: 0.8, ... })
InitialParams ==
  [EP |-> 7000, P |-> 3000, V |-> 8000, SC |-> 9000, Acc |-> 5000, W_p |-> 8500, T |-> 0]

\* useState({ ..., animateTime: true, ..., transportSpeed: 1.0,
\* transportAnimationProgress: 0, isTransportAnimating: false })
InitialSettings ==
  [animateTime |-> TRUE, showGeodesic |-> FALSE, transportSpeed |-> Scale,
   transportAnimationProgress |-> 0, isTransportAnimating |-> FALSE]

\* the settings animate reads: the effect that defines animate depends on
\* [canvasRef] only, so it runs once and its closure keeps the settings
\* object of the first render
MountSettings == InitialSettings

\* StatsPanel, drawn again after every change of state, asks for the
\* symbol (0, 0, 0) at (EP, P)
Redraw(cache, params) ==
  computeChristoffelSymbol(cache, 0, 0, 0, params.EP, params.P, params, StepH).cache

InitHook ==
  /\ christoffelCache = Redraw(EmptyCache, InitialParams)
  /\ history = <<>>
  /\ input = [params |-> InitialParams, settings |-> InitialSettings,
              geodesicPaths |-> <<>>, transportVectors |-> <<>>]

\* an event that made the call `call`, got ret, left the cache as `cache`
\* and the hook's state as `next`
Event(call, ret, cache, next) ==
  /\ Len(history) < MaxEvents
  /\ history' = Record(call, ret)
  /\ input' = next
  /\ christoffelCache' = Redraw(cache, next.params)

\* Space, or the 'Animate Time' switch
ToggleAnimateTime ==
  Event([op |-> "toggleAnimateTime"], "none", christoffelCache,
        [input EXCEPT !.settings.animateTime = ~input.settings.animateTime])

\* 0.016, the time a frame adds
TimeStep == 160

\* 10, the time above which T starts again at 0
TimeWrap == 100000

\* the updater of setParams in animate
AdvanceTime(prev) ==
  [prev EXCEPT !.T = IF prev.T + TimeStep > TimeWrap THEN 0 ELSE prev.T + TimeStep]

\* the updater of setSettings in animate (0.01 is 100 units)
AdvanceTransport(prev) ==
  [prev EXCEPT
     !.transportAnimationProgress =
        IF prev.transportAnimationProgress + Mul(100, prev.transportSpeed) >= Scale
        THEN Scale
        ELSE prev.transportAnimationProgress + Mul(100, prev.transportSpeed),
     !.isTransportAnimating =
        prev.transportAnimationProgress + Mul(100, prev.transportSpeed) < Scale]

\* a frame of animate whose closure holds `settings`
AnimateWith(settings) ==
  Event([op |-> "animate"], "none", christoffelCache,
        [input EXCEPT
           !.params = IF settings.animateTime THEN AdvanceTime(@) ELSE @,
           !.settings = IF settings.isTransportAnimating THEN AdvanceTransport(@) ELSE @])

\* a frame of the animation loop
Animate == AnimateWith(MountSettings)

\* the T slider of the control panel
SetT(v) ==
  Event([op |-> "setT", T |-> v], "none", christoffelCache,
        [input EXCEPT !.params.T = v])

\* the hook's computeGeodesic for the drawn start and end
HookGeodesicDone(start, end, r) ==
  Event([op |-> "computeGeodesic", start |-> start, end |-> end,
         params |-> input.params, steps |-> GeodesicSteps],
        r.ret, r.cache,
        [input EXCEPT !.geodesicPaths = Append(@, r.ret),
                      !.settings.showGeodesic = TRUE])

HookComputeGeodesic(start, end) ==
  HookGeodesicDone(start, end,
                   computeGeodesic(christoffelCache, start, end, input.params,
                                   GeodesicSteps))

\* a path other than the last one pushed
OldestPath(paths) == paths[1]

\* geodesicPathsRef.current[geodesicPathsRef.current.length - 1]
LatestPath(paths) == paths[Len(paths)]

\* animateParallelTransport past its guard, along path
TransportDone(path, r) ==
  Event([op |-> "parallelTransport", vec |-> Vector2(Scale, 0), path |-> path,
         params |-> input.params],
        r.ret, r.cache,
        [input EXCEPT !.transportVectors = r.ret,
                      !.settings.transportAnimationProgress = 0,
                      !.settings.isTransportAnimating = TRUE])

TransportAlong(path) ==
  TransportDone(path, parallelTransport(christoffelCache, Vector2(Scale, 0), path,
                                        input.params))

\* the hook's animateParallelTransport
AnimateParallelTransport ==
  IF Len(input.geodesicPaths) = 0
  THEN Event([op |-> "alert"], "none", christoffelCache, input)
  ELSE TransportAlong(LatestPath(input.geodesicPaths))

\* times near the start and just below the wrap
SliderTimes == {0, 99900}

NextHook ==
  \/ ToggleAnimateTime
  \/ Animate
  \/ \E v \in SliderTimes : SetT(v)
  \/ \E e \in {<<PointA, PointB>>, <<PointB, PointA>>} : HookComputeGeodesic(e[1], e[2])
  \/ AnimateParallelTransport

SpecHook == InitHook /\ [][NextHook]_vars

\* the transport calls of the history come after a geodesic and run along
\* the path the latest geodesic before them returned
TransportAfterGeodesic(h) ==
  \A n \in 1..Len(h) :
    h[n].call.op = "parallelTransport" =>
      \E m \in 1..(n - 1) :
        /\ h[m].call.op = "computeGeodesic"
        /\ h[n].call.path = h[m].ret
        /\ \A k \in (m + 1)..(n - 1) : h[k].call.op # "computeGeodesic"

C19_SpacePausesTime ==
  [][/\ (history' # history /\ history'[Len(history')].call.op = "toggleAnimateTime")
          => input'.settings.animateTime = ~input.settings.animateTime
     /\ (history' # history /\ history'[Len(history')].call.op = "animate"
           /\ ~input.settings.animateTime)
          => input'.params.T = input.params.T]_vars

\* C26 (transport animation progress): a frame in a state where
\* isTransportAnimating holds raises transportAnimationProgress by
\* 0.01 * transportSpeed, to 1 at most, and isTransportAnimating stays
\* true exactly while the progress is below 1.
C26_TransportProgress ==
  [][(history' # history /\ history'[Len(history')].call.op = "animate"
        /\ input.settings.isTransportAnimating)
       => LET newProgress == input.settings.transportAnimationProgress
                               + Mul(100, input.settings.transportSpeed)
          IN  /\ input'.settings.transportAnimationProgress
                   = (IF newProgress >= Scale THEN Scale ELSE newProgress)
              /\ input'.settings.isTransportAnimating = (newProgress < Scale)]_vars


---------------------------------------------------------------------------
(* computeChristoffelSymbol on an empty cache *)

InitSymbol ==
  /\ christoffelCache = EmptyCache
  /\ history = <<>>
  /\ input \in [i : 0..1, j : 0..1, k : 0..1, pt : {PointA, PointB, Point(0, 2500)},
                params : {ParamsBent, ParamsMid, InitialParams}]

QuerySymbol ==
  /\ history = <<>>
  /\ CallChristoffel(input.i, input.j, input.k, input.pt.x, input.pt.y,
                     input.params, StepH)

SpecSymbol == InitSymbol /\ [][QuerySymbol]_vars

\* g^-1 at the point of call c
InverseMetricAt(c) == invertMatrix2x2(computeMetricTensor(c.x, c.y, c.params, c.h))

\* the derivative of the metric along direction d (0 is x, 1 is y) at the
\* point of call c
MetricDerivativeAt(c, d) ==
  computeMetricDerivative(c.x, c.y, c.params, c.h, IF d = 0 THEN "x" ELSE "y")

\* half of g^-1[i][l] times s
HalfInverseTimes(c, l, s) == Mul(Mul(Scale \div 2, InverseMetricAt(c)[c.i][l]), s)

\* C20 (Christoffel formula), as stated: on an empty cache the symbol is
\* 1/2 sum over l of g^-1[i][l] (d_j g[l][k] + d_k g[l][k] - d_l g[j][k]).
C20_FormulaAsStated ==
  \A n \in CallsOf("computeChristoffelSymbol") :
    LET c == history[n].call
        Term(l) == HalfInverseTimes(c, l,
                     MetricDerivativeAt(c, c.j)[l][c.k]
                     + MetricDerivativeAt(c, c.k)[l][c.k]
                     - MetricDerivativeAt(c, l)[c.j][c.k])
    IN  history[n].ret = Term(0) + Term(1)

\* C20 (Christoffel formula), amended: on an empty cache the symbol is
\* 1/2 sum over l of g^-1[i][l] (d_j g[l][k] + d_k g[l][j] - d_l g[j][k]).
C20_Formula ==
  \A n \in CallsOf("computeChristoffelSymbol") :
    LET c == history[n].call
        Term(l) == HalfInverseTimes(c, l,
                     MetricDerivativeAt(c, c.j)[l][c.k]
                     + MetricDerivativeAt(c, c.k)[l][c.j]
                     - MetricDerivativeAt(c, l)[c.j][c.k])
    IN  history[n].ret = Term(0) + Term(1)

\* a symbol with j # k was computed and is not 0
C20_Witness ==
  \E n \in CallsOf("computeChristoffelSymbol") :
    /\ history[n].call.j # history[n].call.k
    /\ history[n].call.params = ParamsBent
    /\ history[n].ret # 0


---------------------------------------------------------------------------
(* The entries of parallelTransport *)

\* C21 (transport records): entry i of parallelTransport's result has the
\* position path[i], and its vector is the carried vector before segment
\* i's increment is added; entry 0 holds the initial vector.
C21_TransportRecords ==
  \A n \in CallsOf("parallelTransport") :
    LET c == history[n].call
        res == history[n].ret
    IN  /\ \A i \in 1..Len(res) : res[i].position = c.path[i]
        /\ Len(res) > 0 => res[1].vector = c.vec
        /\ \A i \in 2..Len(res) :
             res[i].vector =
               LET before == parallelTransport(EmptyCache, c.vec,
                                               SubSeq(c.path, 1, i), c.params).ret
               IN  before[Len(before)].vector


---------------------------------------------------------------------------
(* Geodesics from a point to itself and transports along their paths *)

\* starts inside the domain (two of them where P >= EP), on its edge and
\* outside it
StillStarts ==
  {PointA, Point(0, 2500), Point(9000, 0), Point(Scale, 0), Point(15000, 0)}

\* a geodesic from start to start, the first of the instance
TraceStill(start, params, steps) ==
  /\ CallsOf("computeGeodesic") = {}
  /\ CallGeodesic(start, start, params, steps)

\* a transport along the path the geodesic returned, under params of its
\* own
TransportStill(vec, params) ==
  /\ CallsOf("computeGeodesic") # {}
  /\ CallsOf("parallelTransport") = {}
  /\ CallTransport(vec, history[Len(history)].ret, params)

\* a transport along three coinciding points over pt, handed in by the
\* caller
TransportAtRest(vec, pt, params) ==
  /\ CallsOf("parallelTransport") = {}
  /\ CallTransport(vec,
                   <<Vector3(pt.x * SizeFactor, pt.y * SizeFactor, 0),
                     Vector3(pt.x * SizeFactor, pt.y * SizeFactor, 0),
                     Vector3(pt.x * SizeFactor, pt.y * SizeFactor, 0)>>,
                   params)

NextStill ==
  \/ \E pt \in WarmPoints : WarmCache(pt)
  \/ \E start \in StillStarts, params \in {ParamsFlat, ParamsBent, ParamsMid},
        steps \in 0..MaxSteps : TraceStill(start, params, steps)
  \/ \E vec \in {Vector2(Scale, 0), Vector2(0, Scale)},
        params \in {ParamsBent, ParamsMid, ParamsPast} : TransportStill(vec, params)
  \/ \E pt \in {PointA, Point(0, 2500)}, params \in {ParamsMid, ParamsPast} :
       TransportAtRest(Vector2(Scale, 0), pt, params)

SpecStill == Init /\ [][NextStill]_vars

\* every point of path lies over (x, y)
StaysOver(path, x, y) == \A q \in 1..Len(path) : path[q].x = x /\ path[q].y = y

\* C22 (zero-length direction): a geodesic whose start equals its end and
\* lies inside the domain returns steps + 1 copies of the start point, and
\* a transport along a path of coinciding points returns the initial
\* vector in every entry.
C22_ZeroDirection ==
  /\ \A n \in CallsOf("computeGeodesic") :
       LET c == history[n].call
       IN  (c.start = c.end /\ ~LeftDomain(c.start.x, c.start.y)) =>
             /\ Len(history[n].ret) = c.steps + 1
             /\ \A q \in 1..Len(history[n].ret) :
                  history[n].ret[q] =
                    Vector3(3 * c.start.x, 3 * c.start.y,
                            computeManifoldHeight(c.start.x, c.start.y, c.params))
  /\ \A n \in CallsOf("parallelTransport") :
       LET c == history[n].call
       IN  (Len(c.path) > 0 /\ StaysOver(c.path, c.path[1].x, c.path[1].y)) =>
             \A q \in 1..Len(history[n].ret) : history[n].ret[q].vector = c.vec


---------------------------------------------------------------------------
(* Repeated computeChristoffelSymbol calls near one point *)

\* the calls of a run
MaxReuseCalls == 2

\* 0.25, 0.2504 (which formats to 0.250 as well) and 0.2505 (0.251)
ReuseCoordinates == {2500, 2504, 2505}

\* the steps h: the default and 0.05
ReuseSteps == {StepH, 500}

NextReuse ==
  \E t \in SymbolIndices, x \in ReuseCoordinates, params \in Params, h \in ReuseSteps :
    /\ Len(history) < MaxReuseCalls
    /\ CallChristoffel(t[1], t[2], t[3], x, 0, params, h)

SpecReuse == Init /\ [][NextReuse]_vars

\* calls a and b ask for the same indices at coordinates that format to
\* the same three-decimal strings
SameKey(a, b) ==
  /\ a.i = b.i /\ a.j = b.j /\ a.k = b.k
  /\ ToFixed3(a.x) = ToFixed3(b.x)
  /\ ToFixed3(a.y) = ToFixed3(b.y)

\* C23 (quantized reuse): a computeChristoffelSymbol call returns the value
\* of the first call on the instance with the same (i, j, k) and the same
\* three-decimal strings of x and y, whatever its own x, y, params and h.
C23_QuantizedReuse ==
  \A n \in CallsOf("computeChristoffelSymbol"), m \in CallsOf("computeChristoffelSymbol") :
    (n < m /\ SameKey(history[n].call, history[m].call)) =>
      history[m].ret = history[n].ret

\* a call at 0.2504 with other params and another h returned the value the
\* call at 0.25 had returned, not the value of its own arguments
C23_Witness ==
  /\ Len(history) = 2
  /\ history[1].call.x = 2500
  /\ history[2].call.x = 2504
  /\ history[2].call.i = history[1].call.i
  /\ history[2].call.j = history[1].call.j
  /\ history[2].call.k = history[1].call.k
  /\ history[2].call.params # history[1].call.params
  /\ history[2].call.h # history[1].call.h
  /\ history[2].ret = history[1].ret
  /\ history[2].ret # FreshSymbol(history[2].call)


---------------------------------------------------------------------------
(* Signs of the five emotions *)

\* the arguments lie in the declared ranges: V, SC, Acc, W_p in [0, 1] and
\* T >= 0
Declared(a) ==
  /\ \A f \in {"V", "SC", "Acc", "W_p"} : 0 <= a[f] /\ a[f] <= Scale
  /\ a.T >= 0

\* C24 (emotion sign structure): for arguments in the declared ranges
\* sadness <= 0 and fear, anger, worry >= 0; if P >= EP these four are 0
\* and happiness >= 0; if P < EP happiness <= 0; anger is 0 when W_p = 1
\* and the other four are 0 when W_p = 0.
C24_SignStructure ==
  \A n \in CallsOf("computeAllEmotions") :
    LET a == history[n].call.args
        e == history[n].ret
    IN  Declared(a) =>
          /\ e.sadness <= 0 /\ e.fear >= 0 /\ e.anger >= 0 /\ e.worry >= 0
          /\ a.P >= a.EP =>
               /\ e.sadness = 0 /\ e.fear = 0 /\ e.anger = 0 /\ e.worry = 0
               /\ e.happiness >= 0
          /\ a.P < a.EP => e.happiness <= 0
          /\ a.W_p = Scale => e.anger = 0
          /\ a.W_p = 0 =>
               /\ e.happiness = 0 /\ e.sadness = 0 /\ e.fear = 0 /\ e.worry = 0

\* the emotions at EP = 10, P = 0.25 under half acceptance and half
\* perspective at T = 0: all five are away from 0, with the claimed signs
C24_Witness ==
  \E n \in CallsOf("computeAllEmotions") :
    /\ history[n].call.args.EP = 100000
    /\ history[n].call.args.P = 2500
    /\ history[n].call.args.W_p = 5000
    /\ history[n].call.args.T = 0
    /\ history[n].ret.happiness < 0
    /\ history[n].ret.sadness < 0
    /\ history[n].ret.fear > 0
    /\ history[n].ret.anger > 0
    /\ history[n].ret.worry > 0

---------------------------------------------------------------------------
(* The surface under two settings of the EP and P sliders: the caller asks *)
(* for the height, the metric tensor, the curvature and the vector field   *)
(* at one point, under the params record it holds and under the same       *)
(* record with other EP and P values.                                      *)

MaxSliderCalls == 2

SliderLevels == {2000, 8000}

SliderPoints == {PointA, Point(2500, 7500)}

\* { ...params, EP, P }
WithSliders(params, EP, P) == [params EXCEPT !.EP = EP, !.P = P]

InitSliders ==
  /\ christoffelCache = EmptyCache
  /\ history = <<>>
  /\ input \in [pt : SliderPoints, params : {ParamsBent, ParamsMid},
                EP : SliderLevels, P : SliderLevels]

\* the two records the caller holds
SliderParams == {input.params, WithSliders(input.params, input.EP, input.P)}

SliderCall(op, params) == [op |-> op, x |-> input.pt.x, y |-> input.pt.y, params |-> params]

HeightUnder(params) ==
  /\ Len(history) < MaxSliderCalls
  /\ history' = Record(SliderCall("computeManifoldHeight", params),
                        computeManifoldHeight(input.pt.x, input.pt.y, params))
  /\ UNCHANGED <<christoffelCache, input>>

MetricUnder(params) ==
  /\ Len(history) < MaxSliderCalls
  /\ history' = Record(SliderCall("computeMetricTensor", params),
                        computeMetricTensor(input.pt.x, input.pt.y, params, StepH))
  /\ UNCHANGED <<christoffelCache, input>>

CurvatureUnder(params) ==
  /\ Len(history) < MaxSliderCalls
  /\ history' = Record(SliderCall("computeCurvature", params),
                        computeCurvature(input.pt.x, input.pt.y, params, StepH))
  /\ UNCHANGED <<christoffelCache, input>>

VectorFieldUnder(params) ==
  /\ Len(history) < MaxSliderCalls
  /\ history' = Record(SliderCall("computeVectorField", params),
                        computeVectorField(input.pt.x, input.pt.y, params))
  /\ UNCHANGED <<christoffelCache, input>>

NextSliders ==
  \E params \in SliderParams :
    \/ HeightUnder(params)
    \/ MetricUnder(params)
    \/ CurvatureUnder(params)
    \/ VectorFieldUnder(params)

SpecSliders == InitSliders /\ [][NextSliders]_vars

\* the records a and b agree in every field but EP and P
SameButSliders(a, b) == \A f \in {"V", "SC", "Acc", "W_p", "T"} : a[f] = b[f]

\* C25 (height ignores EP and P): two calls of computeManifoldHeight, of
\* computeMetricTensor, of computeCurvature or of computeVectorField at the
\* same point, under params records that differ at most in EP and P, return
\* the same value.
C25_HeightIgnoresSliders ==
  \A m, n \in 1..Len(history) :
    (/\ history[m].call.op = history[n].call.op
     /\ history[m].call.x = history[n].call.x
     /\ history[m].call.y = history[n].call.y
     /\ SameButSliders(history[m].call.params, history[n].call.params))
    => history[m].ret = history[n].ret

\* a height other than 0 was returned under two records whose EP and P both
\* differ
C25_Witness ==
  /\ Len(history) = 2
  /\ history[1].call.op = "computeManifoldHeight"
  /\ history[2].call.op = "computeManifoldHeight"
  /\ history[1].call.params.EP # history[2].call.params.EP
  /\ history[1].call.params.P # history[2].call.params.P
  /\ history[1].ret # 0
  /\ history[1].ret = history[2].ret

---------------------------------------------------------------------------
(* Where a trace ends: one computeGeodesic call on a fresh instance, for   *)
(* starts and targets at several distances from each other.                *)

EndpointStarts == {Point(0, 0), Point(-5000, 0), PointA, Point(-5000, -5000), Point(0, -6000)}

\* targets at distance 0, 0.5 and 1 from Point(0, 0), at distance 1 from
\* Point(-5000, 0), and one outside the domain
EndpointEnds ==
  {Point(0, 0), Point(3000, 4000), Point(6000, 8000), Point(5000, 0), PointA, PointB,
   Point(20000, 0)}

TraceToEnd(start, end, params, steps) ==
  /\ history = <<>>
  /\ CallGeodesic(start, end, params, steps)

NextEndpoint ==
  \/ \E start \in EndpointStarts, end \in EndpointEnds, steps \in 0..MaxSteps :
       TraceToEnd(start, end, ParamsFlat, steps)
  \/ \E steps \in 0..MaxSteps : TraceToEnd(PointA, PointB, ParamsBent, steps)

SpecEndpoint == Init /\ [][NextEndpoint]_vars

\* (end - start) / |end - start| for the geodesic call c, and |end - start|;
\* the quotient 0 / 0 is NaN
EndDirection(c) ==
  LET vx0 == c.end.x - c.start.x
      vy0 == c.end.y - c.start.y
      m   == Sqrt(Mul(vx0, vx0) + Mul(vy0, vy0))
  IN  [x |-> IF m = 0 THEN NaN ELSE Div(vx0, m),
       y |-> IF m = 0 THEN NaN ELSE Div(vy0, m), m |-> m]

\* the units by which steps additions of dt * v can miss v: the rounding of
\* dt = 1 / steps, of each product and of the direction
EndpointSlack(steps) == steps + 2

\* the numbers a and b differ by at most slack units
Near(a, b, slack) == ~IsNaN(a) /\ ~IsNaN(b) /\ Abs(a - b) <= slack

\* the emitted point p is start + u, times the size factor, for the call c
EndsOneAhead(p, c, u) ==
  /\ Near(p.x, Mul(Add(c.start.x, u.x), Num(SizeFactor)),
          SizeFactor * EndpointSlack(c.steps))
  /\ Near(p.y, Mul(Add(c.start.y, u.y), Num(SizeFactor)),
          SizeFactor * EndpointSlack(c.steps))

\* the emitted point p is the point q of the plane
EmittedAt(p, q) == p.x = SizeFactor * q.x /\ p.y = SizeFactor * q.y

\* the first call of a run (the cache is empty), under flat params, whose
\* points all lie inside the domain
FlatInsideTraces ==
  {n \in CallsOf("computeGeodesic") :
     /\ n = 1
     /\ Flat(history[n].call.params)
     /\ \A q \in 1..Len(history[n].ret) : ~Outside(history[n].ret[q])}

\* C27 (geodesic endpoint), as stated: on a flat surface with an empty
\* cache and a trace that stays inside the domain, the last point is
\* start + (end - start) / |end - start| (times 3), whatever |end - start|
\* is, and the path ends at end only when |end - start| = 1.
C27_EndpointAsStated ==
  \A n \in FlatInsideTraces :
    LET c    == history[n].call
        last == history[n].ret[Len(history[n].ret)]
        u    == EndDirection(c)
    IN  /\ EndsOneAhead(last, c, u)
        /\ EmittedAt(last, c.end) => Near(u.m, Scale, EndpointSlack(c.steps))

\* C27 (geodesic endpoint), amended: on a flat surface with an empty cache
\* and a trace that stays inside the domain, for steps >= 1 and
\* end # start the last point is start + (end - start) / |end - start|
\* (times 3) up to rounding, and the path ends at end only when
\* |end - start| = 1; for steps = 0 or end = start the last point is the
\* start point.
C27_Endpoint ==
  \A n \in FlatInsideTraces :
    LET c    == history[n].call
        last == history[n].ret[Len(history[n].ret)]
        u    == EndDirection(c)
    IN  IF c.steps >= 1 /\ c.end # c.start
        THEN /\ EndsOneAhead(last, c, u)
             /\ EmittedAt(last, c.end) => Near(u.m, Scale, EndpointSlack(c.steps))
        ELSE EmittedAt(last, c.start)

\* a flat two-step trace from (0, 0) toward (0.3, 0.4), at distance 0.5,
\* ended at (0.6, 0.8), emitted as (1.8, 2.4)
C27_Witness ==
  \E n \in FlatInsideTraces :
    /\ history[n].call.start = Point(0, 0)
    /\ history[n].call.end = Point(3000, 4000)
    /\ history[n].call.steps = 2
    /\ Len(history[n].ret) = 3
    /\ EmittedAt(history[n].ret[3], Point(6000, 8000))

=============================================================================
